---- MODULE Spec2Model ----
(***************************************************************************)
(* plotorder: the order processor (Processor.Start / Processor.process),   *)
(* the per-plot download state machine (plot.Plot) and the tasks a         *)
(* Download starts (reader, live validator, recorder), as a state machine. *)
(*                                                                         *)
(* Sizes are counted in units of half a hash chunk: hashChunkSize is 2     *)
(* units, one reader step moves one unit from the response body to the     *)
(* file.  A unit of a file is TRUE when it holds the byte the remote file  *)
(* has at that offset, FALSE otherwise; a chunk's hash matches exactly     *)
(* when the chunk on disk has the chunk's full length and only TRUE units. *)
(***************************************************************************)
EXTENDS Integers, Sequences, FiniteSets, TLC

\* ------------------------------------------------------------------ bounds
MaxPlots == 2        \* plots of an order
MaxTasks == 2        \* Download (and PrepareDownload) tasks of one plot alive at once
MaxFaults == 1       \* failures the environment injects in one run
MaxSize == 3         \* largest plot file, in units
MaxSamples == 7      \* samples of a plot's download the history is followed for

\* ------------------------------------------------------- program constants
hashChunkSize == 2   \* units per hash chunk

Plots == 1 .. MaxPlots
Tasks == 1 .. MaxTasks
plotDirs == <<"d1", "d2">>
Dirs == {plotDirs[i] : i \in 1 .. Len(plotDirs)}
Sizes == hashChunkSize .. MaxSize
SmallDisk == MaxSize - 1
BigDisk == 2 * MaxPlots * MaxSize

\* plot.State
StatePending == "P"
StatePlotting == "R"
StatePublished == "D"
StateCancelled == "C"
StateExpired == "X"

\* plot.DownloadState
DownloadStateEmpty == ""
DownloadStateLookingForDownloadDirectory == "LOOKING_FOR_DOWNLOAD_DIRECTORY"
DownloadStateNotStarted == "NOT_STARTED"
DownloadStateWaitingForHashes == "WAITING_FOR_HASHES"
DownloadStatePreparing == "PREPARING"
DownloadStateReady == "READY"
DownloadStateDownloading == "DOWNLOADING"
DownloadStateDownloaded == "DOWNLOADED"
DownloadStateFailed == "FAILED"
DownloadStateInitialValidation == "INITIAL_VALIDATION"
DownloadStateLiveValidation == "LIVE_VALIDATION"
DownloadStateFailedValidation == "FAILED_VALIDATION"
DownloadStateEnqueued == "ENQUEUED"

NoOffset == -1       \* truncateFrom == nil
NoTask == 0          \* cancelDownload == nil

VARIABLES
    \* the remote service and the machine
    remoteState,        \* the remote's state of each plot
    remoteSize,         \* the size of the remote's file of each plot
    free,               \* bytes available per directory (disk.GetAvailableSpace)
    file,               \* the plot's file on disk, a sequence of units
    fileAt,             \* the directory the plot's file is in ("" while there is none)
    faults,             \* failures the environment may still inject
    taskCap,            \* what a run is given: the Download and PrepareDownload tasks one
                        \* plot may have alive, the answers of the hashes endpoint, the
                        \* samples the download history is followed for, the volume
                        \* each directory is on
    statFinds,          \* os.Stat(p.GetDownloadFilepath()) finds the file a plot has
    \* Processor
    nplots,             \* len(proc.plots): the plots of the order
    maxDownloads,       \* --max-downloads
    ppc,                \* where Start's loop is
    idx,                \* process(): index of the plot being visited
    expiredOrCancelled, \* process(): local counter
    schedule,           \* proc.schedule: "none" (deleted), "zero" (time.Time{}), "set"
    downloads,          \* proc.downloads (WaitGroup counter)
    ctxDone,            \* Start's context is cancelled
    result,             \* how Start returned
    \* Plot
    State, downloadState, downloadDirectory, downloadSize, fileChunkHashes,
    downloadError, truncateFrom, cancelDownload,
    \* tasks
    dl,                 \* Download tasks: pc, own cancellation, stream position
    val,                \* live validator of each Download task
    rec,                \* recorder of each Download task is running
    prep,               \* PrepareDownload tasks
    \* history
    validated,          \* chunks a validateChunk call found valid since they were written
    deleted,            \* DeletePlot calls the remote accepted, per plot
    resumedFrom,        \* the directory that held the plot's file when a directory was
                        \* chosen for it ("-": it had no file, "": none chosen yet)
    hashesCall,         \* the last client.GetHashesForPlot call for each plot: what the
                        \* remote answered and what the call returned
    \* the recorder
    downloadHistory,    \* Plot.downloadHistory
    taken               \* every sample the recorders of a plot took, in order

procVars == <<nplots, maxDownloads, ppc, idx, expiredOrCancelled, schedule, downloads,
              ctxDone, result>>
plotVars == <<State, downloadState, downloadDirectory, downloadSize, fileChunkHashes,
              downloadError, truncateFrom, cancelDownload>>
taskVars == <<dl, val, rec, prep>>
envVars == <<remoteState, remoteSize, free, file, fileAt, faults, taskCap, statFinds>>
recorded == <<hashesCall, downloadHistory, taken>>
histVars == <<validated, deleted, resumedFrom, recorded>>
vars == <<envVars, procVars, plotVars, taskVars, histVars>>

Order == 1 .. nplots
Slots == 1 .. taskCap.dl
PrepSlots == 1 .. taskCap.prep

\* ----------------------------------------------------------------- helpers
Min(a, b) == IF a < b THEN a ELSE b

RECURSIVE SumOver(_, _)
SumOver(S, f) ==
    IF S = {} THEN 0
    ELSE LET x == CHOOSE y \in S : TRUE IN f[x] + SumOver(S \ {x}, f)

\* plot.go requiredNumberOfFileHashes: ceil(downloadSize / hashChunkSize)
requiredNumberOfFileHashes(p) ==
    (downloadSize[p] + hashChunkSize - 1) \div hashChunkSize

\* a getDownloadedBytes that answers the start of the chunk the file ends in, so
\* that a resumed Download asks for bytes the file already has (C17 does not
\* survive it)
getDownloadedBytes_ChunkStart(p) ==
    IF downloadDirectory[p] = "" THEN 0
    ELSE IF Len(file[p]) = downloadSize[p] THEN Len(file[p])
    ELSE (Len(file[p]) \div hashChunkSize) * hashChunkSize

\* plot.go getDownloadedBytes: the size of the file behind p.f (0 when p.f is nil)
getDownloadedBytes(p) == IF downloadDirectory[p] = "" THEN 0 ELSE Len(file[p])

\* entries downloadHistory keeps
historySize == 5

\* a recordDownloadedBytes that makes room by dropping the newest entry it
\* keeps instead of the oldest (C29 does not survive it)
recordDownloadedBytes_DropsNewest(p, now) ==
    LET kept == IF Len(downloadHistory[p]) >= historySize
                THEN SubSeq(downloadHistory[p], 1, Len(downloadHistory[p]) - 1)
                ELSE downloadHistory[p]
    IN  Append(kept, [bytes |-> getDownloadedBytes(p), time |-> now])

\* plot.go recordDownloadedBytes: the history after a sample at time now; a
\* full history is shifted left by one entry first
recordDownloadedBytes(p, now) ==
    LET kept == IF Len(downloadHistory[p]) >= historySize
                THEN Tail(downloadHistory[p])
                ELSE downloadHistory[p]
    IN  Append(kept, [bytes |-> getDownloadedBytes(p), time |-> now])

\* plot.go updateDownloadState
updateDownloadState(p, s) == [downloadState EXCEPT ![p] = s]

\* plot.go GetRemainingBytes
GetRemainingBytes(p) == downloadSize[p] - getDownloadedBytes(p)

\* The hash of the units [start, start + hashChunkSize) of the file equals the
\* remote's hash of chunk `number`: the chunk on disk is as long as the remote's
\* chunk and every unit of it is the remote's.
ChunkMatches(p, number) ==
    LET start == number * hashChunkSize
        want == Min(hashChunkSize, remoteSize[p] - start)
        have == Min(hashChunkSize, Len(file[p]) - start)
    IN  /\ have = want
        /\ \A i \in start + 1 .. start + want : file[p][i]

\* plot.go validateChunk: "error" when there is no hash for the chunk, else
\* "valid" or "invalid" (and then truncateFrom is set to the chunk's start)
validateChunk(p, number) ==
    IF number >= fileChunkHashes[p] THEN "error"
    ELSE IF ChunkMatches(p, number) THEN "valid"
    ELSE "invalid"

\* Download's ctx of task t: derived from Start's, cancelled by its own cancel()
TaskCtxDone(p, t) == ctxDone \/ dl[p][t].cancelled

\* the Download tasks of plot p that were spawned and have not returned
ActiveDownloads(p) == {t \in Tasks : dl[p][t].pc # "idle"}

\* a slot holds no Download and none of the routines of an earlier one
SlotFree(p, t) == dl[p][t].pc = "idle" /\ val[p][t].pc = "off" /\ ~rec[p][t]

IdleTask == [pc |-> "idle", cancelled |-> FALSE, pos |-> 0, err |-> FALSE, werr |-> FALSE]
IdleVal == [pc |-> "off", prevChunkN |-> 0, currChunkN |-> 0, chunk |-> 0,
            prevState |-> DownloadStateEmpty]
IdlePrep == [pc |-> "idle", chunk |-> 0]

\* disk.GetAvailableSpace answers the available bytes of the volume a directory
\* is on, and the volume's id (the device of the directory): every directory
\* its own volume, or all of them on one
OwnVolumes == [d \in Dirs |-> d]
OneVolume == [d \in Dirs |-> "v"]

\* the bytes available per directory after n units were written to the file of
\* a plot in directory d (n < 0: taken off it): they come out of the volume d is
\* on, for every directory on that volume
Written(d, n) ==
    [e \in Dirs |-> IF taskCap.volumes[e] = taskCap.volumes[d] THEN free[e] - n
                                                              ELSE free[e]]

FaultChoices == IF faults > 0 THEN BOOLEAN ELSE {FALSE}
Spend(fault) == IF fault THEN faults - 1 ELSE faults

\* ------------------------------------------------------------ the client
\* What the remote's hashes endpoint answers, as Client.apiRequest sees it last:
\* the status code (0: the last attempt got no response) and the body, which
\* has no bytes ("empty"), is JSON but no list of strings ("object"), or is a
\* list of n hashes ("list")
Reply(code, body, n) == [code |-> code, body |-> body, n |-> n]
NoResponse == Reply(0, "empty", 0)
Statuses == {200, 400, 500}
Bodies == {"empty", "object", "list"}

\* the answer that carries every hash of plot p
GoodReply(p) == Reply(200, "list", requiredNumberOfFileHashes(p))

\* the retryFunc GetHashesForPlot passes to apiRequest: another attempt is made
\* unless the status is 200 or 400
retryHashes(code) == code \notin {200, 400}

\* Client.apiRequest: the error of the last attempt, or the body of the last
\* response whatever its status (a status the caller does not retry on ends the
\* loop at once, any other when the back-off window is over)
apiRequest(reply) ==
    IF reply.code = 0 THEN [err |-> TRUE, body |-> "empty", n |-> 0]
    ELSE [err |-> FALSE, body |-> reply.body, n |-> reply.n]

\* Client.GetHashesForPlot: "" and the number of hashes, or the error:
\* "notready" for ErrPlotHashesNotReady, "error" for any other
GetHashesForPlot(reply) ==
    LET response == apiRequest(reply)
    IN  IF response.err THEN [err |-> "error", n |-> 0]
        ELSE IF response.body = "empty" THEN [err |-> "notready", n |-> 0]
        ELSE IF response.body # "list" THEN [err |-> "error", n |-> 0]
        ELSE IF response.n < 1 THEN [err |-> "notready", n |-> 0]
        ELSE [err |-> "", n |-> response.n]

\* no GetHashesForPlot call was made for the plot
NoCall == [reply |-> NoResponse, result |-> "none"]

\* ------------------------------------------------------------------- Init
\* a plot without a file from an earlier run
NoFile == <<"", <<>>>>

\* The state after NewProcessor and the first lines of Start (the order's plots
\* are loaded, every plot is scheduled at the zero time). c gives the run:
\*   n      plots of the order            md    --max-downloads
\*   free   bytes available per directory faults failures the environment injects
\*   sizes  sizes the remote files have   files  <<directory, contents>> of the
\*   dl, prep  tasks of a kind a plot may have alive      files earlier runs left
\*   stat   what the stat of a plot's file path may answer for a file that exists
\*   replies  what the hashes endpoint may answer instead of the plot's hashes
\*   samples  samples the download history is followed for
\*   volumes  the volume (device) each directory is on
InitWith(c) ==
    /\ remoteState = [p \in Plots |-> StatePending]
    /\ remoteSize \in [Plots -> Sizes \cup c.sizes]
    /\ \A p \in Plots : IF p <= c.n THEN remoteSize[p] \in c.sizes
                                  ELSE remoteSize[p] = hashChunkSize
    /\ free = c.free
    /\ \E left \in [Plots -> c.files \cup {NoFile}] :
          /\ \A p \in Plots : IF p <= c.n THEN left[p] \in c.files ELSE left[p] = NoFile
          /\ fileAt = [p \in Plots |-> left[p][1]]
          /\ file = [p \in Plots |-> left[p][2]]
    /\ faults = c.faults
    /\ taskCap = [dl |-> c.dl, prep |-> c.prep, replies |-> c.replies,
                  samples |-> c.samples, volumes |-> c.volumes]
    /\ statFinds \in c.stat
    /\ nplots = c.n
    /\ maxDownloads = c.md
    /\ ppc = "select"
    /\ idx = 1
    /\ expiredOrCancelled = 0
    /\ schedule = [p \in Plots |-> IF p <= c.n THEN "zero" ELSE "none"]
    /\ downloads = 0
    /\ ctxDone = FALSE
    /\ result = "running"
    /\ State = [p \in Plots |-> StatePending]
    /\ downloadState = [p \in Plots |-> DownloadStateEmpty]
    /\ downloadDirectory = [p \in Plots |-> ""]
    /\ downloadSize = [p \in Plots |-> 0]
    /\ fileChunkHashes = [p \in Plots |-> 0]
    /\ downloadError = [p \in Plots |-> FALSE]
    /\ truncateFrom = [p \in Plots |-> NoOffset]
    /\ cancelDownload = [p \in Plots |-> NoTask]
    /\ dl = [p \in Plots |-> [t \in Tasks |-> IdleTask]]
    /\ val = [p \in Plots |-> [t \in Tasks |-> IdleVal]]
    /\ rec = [p \in Plots |-> [t \in Tasks |-> FALSE]]
    /\ prep = [p \in Plots |-> [t \in Tasks |-> IdlePrep]]
    /\ validated = [p \in Plots |-> {}]
    /\ deleted = [p \in Plots |-> 0]
    /\ resumedFrom = [p \in Plots |-> ""]
    /\ hashesCall = [p \in Plots |-> NoCall]
    /\ downloadHistory = [p \in Plots |-> <<>>]
    /\ taken = [p \in Plots |-> <<>>]

\* ------------------------------------------------- directory allocation
\* a getAvailableSpace that answers the probe's bytes alone, nothing held back
\* for the plots already assigned to the directory (C12 does not survive it)
getAvailableSpace_ProbeOnly(plotDir) == free[plotDir]

\* getAvailableSpace: the probe's bytes minus the remaining bytes of every plot
\* whose download directory is plotDir
getAvailableSpace(plotDir) ==
    free[plotDir]
      - SumOver({q \in Order : downloadDirectory[q] = plotDir},
                [q \in Plots |-> GetRemainingBytes(q)])

\* first pass of getPlotDownloadDirectory: os.Stat(p.GetDownloadFilepath()). The
\* path is the plot's alone, the same in every round of the loop over plotDirs:
\* a plot without a file has none there, and whether the file a plot has is
\* found there is the same all through a run
StatFilepath(p) == fileAt[p] # "" /\ statFinds

\* second pass: the first configured directory with room for the whole plot
FreshIndex(p) ==
    LET fits == {i \in 1 .. Len(plotDirs) :
                    downloadSize[p] <= getAvailableSpace(plotDirs[i])}
    IN  IF fits = {} THEN 0 ELSE CHOOSE i \in fits : \A j \in fits : i <= j

\* getPlotDownloadDirectory: the directory, or "" for ErrNotEnoughSpace. When
\* the stat finds a file the first round of the first pass returns: the first
\* configured directory, if the rest of the plot fits into it
getPlotDownloadDirectory(p, found) ==
    IF found
    THEN LET plotDir == plotDirs[1]
             remaining == downloadSize[p] - Len(file[p])
         IN  IF remaining > getAvailableSpace(plotDir) THEN "" ELSE plotDir
    ELSE IF FreshIndex(p) # 0 THEN plotDirs[FreshIndex(p)] ELSE ""

\* ------------------------------------------------------ admission (cap)
\* the other reading of "in flight": every Published plot with a non-empty
\* download state, Enqueued included (C9 does not survive it)
InFlight_CountsEnqueued ==
    {q \in Order : State[q] = StatePublished /\ downloadState[q] # DownloadStateEmpty}

\* plots that count against --max-downloads: Published and past Enqueued
InFlight ==
    {q \in Order : /\ State[q] = StatePublished
                   /\ downloadState[q] \notin {DownloadStateEmpty, DownloadStateEnqueued}}

CapReached == maxDownloads > 0 /\ Cardinality(InFlight) >= maxDownloads

\* ------------------------------------------------------------- Processor
\* The tick of Start's loop is the free-space check of every directory followed
\* by process(); process() visits the plots in order, one visit per step.

\* the visit of plot p is next: inside process(), or as the first visit of a tick
\* whose free-space check found no directory with zero bytes
AtPlot(p) ==
    \/ ppc = "process" /\ idx = p
    \/ ppc = "select" /\ p = 1 /\ \A d \in Dirs : free[d] > 0

\* process()'s counter before the visit
Counted == IF ppc = "select" THEN 0 ELSE expiredOrCancelled

\* after the visit of p, which counted c plots: the next plot, or the end of
\* process(): "finished" when every plot was counted, else the next tick
Advance(p, c) ==
    IF p < nplots
    THEN /\ ppc' = "process"
         /\ idx' = p + 1
         /\ expiredOrCancelled' = Counted + c
         /\ UNCHANGED <<ctxDone, result>>
    ELSE /\ idx' = 1
         /\ expiredOrCancelled' = 0
         /\ IF Counted + c = nplots
            THEN ppc' = "returned" /\ result' = "finished" /\ ctxDone' = TRUE
            ELSE ppc' = "select" /\ UNCHANGED <<ctxDone, result>>

\* Start: a directory reports zero bytes: cancel() and return
StartNoSpace ==
    /\ ppc = "select"
    /\ \E d \in Dirs : free[d] = 0
    /\ ctxDone' = TRUE
    /\ ppc' = "returned"
    /\ result' = "nospace"
    /\ UNCHANGED <<nplots, maxDownloads, idx, expiredOrCancelled, schedule, downloads>>
    /\ UNCHANGED <<envVars, plotVars, taskVars, histVars>>

\* Start: the select takes <-ctx.Done()
StartCtxDone ==
    /\ ppc = "select"
    /\ ctxDone
    /\ ppc' = "wait"
    /\ UNCHANGED <<nplots, maxDownloads, idx, expiredOrCancelled, schedule, downloads,
                   ctxDone, result>>
    /\ UNCHANGED <<envVars, plotVars, taskVars, histVars>>

\* Start: proc.downloads.Wait() returns, Start returns
StartWaited ==
    /\ ppc = "wait"
    /\ downloads = 0
    /\ ppc' = "returned"
    /\ result' = "cancelled"
    /\ UNCHANGED <<nplots, maxDownloads, idx, expiredOrCancelled, schedule, downloads,
                   ctxDone>>
    /\ UNCHANGED <<envVars, plotVars, taskVars, histVars>>

\* the signal handler (or q+Enter) cancels the root context
RootCancel ==
    /\ ~ctxDone
    /\ ppc # "returned"
    /\ ctxDone' = TRUE
    /\ UNCHANGED <<nplots, maxDownloads, ppc, idx, expiredOrCancelled, schedule,
                   downloads, result>>
    /\ UNCHANGED <<envVars, plotVars, taskVars, histVars>>

\* the remote moves a plot along Pending -> Plotting -> Published
RemoteAdvance(p) ==
    /\ p \in Order
    /\ remoteState[p] \in {StatePending, StatePlotting}
    /\ remoteState' = [remoteState EXCEPT ![p] =
                          IF @ = StatePending THEN StatePlotting ELSE StatePublished]
    /\ UNCHANGED <<remoteSize, free, file, fileAt, faults, taskCap, statFinds>>
    /\ UNCHANGED <<procVars, plotVars, taskVars, histVars>>

\* the plot is cancelled on the remote
RemoteCancel(p) ==
    /\ p \in Order
    /\ faults > 0
    /\ remoteState[p] \in {StatePending, StatePlotting, StatePublished}
    /\ remoteState' = [remoteState EXCEPT ![p] = StateCancelled]
    /\ faults' = faults - 1
    /\ UNCHANGED <<remoteSize, free, file, fileAt, taskCap, statFinds>>
    /\ UNCHANGED <<procVars, plotVars, taskVars, histVars>>

\* -------------------------------------------------- process(): one plot
\* what a visit that counts c plots leaves of the processor's own state; the
\* schedule entry is rewritten when the plot was reloaded
VisitDone(p, reload, c) ==
    /\ Advance(p, c)
    /\ schedule' = IF reload THEN [schedule EXCEPT ![p] = "set"] ELSE schedule
    /\ UNCHANGED <<nplots, maxDownloads, downloads>>

\* the plot is reloaded when its scheduled time has passed: always for the zero
\* time Start sets, otherwise when enough time went by
Reloads(p) == IF schedule[p] = "zero" THEN {TRUE} ELSE BOOLEAN

\* the state process() dispatches on: the reloaded one, or the one it has
NewState(p, reload) == IF reload THEN remoteState[p] ELSE State[p]

\* process() returns the error of client.GetPlot (the context is cancelled, or
\* a failure outlasts the retry window); Start continues when its context is
\* cancelled and returns the error otherwise
ProcessGetPlotError(p, reload) ==
    \E fault \in FaultChoices :
        /\ reload
        /\ ctxDone \/ fault
        /\ ctxDone => ~fault
        /\ faults' = Spend(fault)
        /\ idx' = 1
        /\ expiredOrCancelled' = 0
        /\ IF ctxDone
           THEN ppc' = "select" /\ UNCHANGED <<ctxDone, result>>
           ELSE ppc' = "returned" /\ result' = "error" /\ ctxDone' = TRUE
        /\ UNCHANGED <<nplots, maxDownloads, schedule, downloads>>
        /\ UNCHANGED <<remoteState, remoteSize, free, file, fileAt, taskCap, statFinds>>
        /\ UNCHANGED <<plotVars, taskVars, histVars>>

\* Pending, Plotting; and the download states the tick only reports
ProcessIdle(p, reload) ==
    /\ ~ctxDone \/ ~reload
    /\ \/ NewState(p, reload) \in {StatePending, StatePlotting}
       \/ /\ NewState(p, reload) = StatePublished
          /\ downloadState[p] \in {DownloadStatePreparing, DownloadStateDownloading,
                                   DownloadStateLiveValidation,
                                   DownloadStateInitialValidation}
    /\ State' = [State EXCEPT ![p] = NewState(p, reload)]
    /\ VisitDone(p, reload, 0)
    /\ UNCHANGED <<downloadState, downloadDirectory, downloadSize, fileChunkHashes,
                   downloadError, truncateFrom, cancelDownload>>
    /\ UNCHANGED <<envVars, taskVars, histVars>>

\* Cancelled, Expired: counted and taken off the schedule
ProcessExpiredOrCancelled(p, reload) ==
    /\ ~ctxDone \/ ~reload
    /\ NewState(p, reload) \in {StateCancelled, StateExpired}
    /\ State' = [State EXCEPT ![p] = NewState(p, reload)]
    /\ Advance(p, 1)
    /\ schedule' = [schedule EXCEPT ![p] = "none"]
    /\ UNCHANGED <<nplots, maxDownloads, downloads>>
    /\ UNCHANGED <<downloadState, downloadDirectory, downloadSize, fileChunkHashes,
                   downloadError, truncateFrom, cancelDownload>>
    /\ UNCHANGED <<envVars, taskVars, histVars>>

\* a SetDownloadEnqueued that moves the plot on as if it were admitted (C8 does
\* not survive it)
SetDownloadEnqueued_Admits(p) ==
    updateDownloadState(p, DownloadStateLookingForDownloadDirectory)

\* plot.go SetDownloadEnqueued
SetDownloadEnqueued(p) == updateDownloadState(p, DownloadStateEnqueued)

\* plot.go InitialiseDownload: the HEAD request gives the size (or fails and
\* leaves the plot as it is; the tick then sets the error flag)
InitialiseDownload(p, headFails) ==
    IF headFails
    THEN /\ downloadError' = [downloadError EXCEPT ![p] = TRUE]
         /\ UNCHANGED <<downloadSize, downloadState>>
    ELSE /\ downloadSize' = [downloadSize EXCEPT ![p] = remoteSize[p]]
         /\ downloadState' = updateDownloadState(p, DownloadStateLookingForDownloadDirectory)
         /\ UNCHANGED downloadError

\* Published, download state "" or Enqueued: admission under the cap, then
\* InitialiseDownload
ProcessAdmit(p, reload) ==
    \E fault \in FaultChoices :
        /\ ~ctxDone \/ ~reload
        /\ NewState(p, reload) = StatePublished
        /\ downloadState[p] \in {DownloadStateEmpty, DownloadStateEnqueued}
        /\ State' = [State EXCEPT ![p] = NewState(p, reload)]
        /\ IF CapReached
           THEN /\ ~fault
                /\ downloadState' = SetDownloadEnqueued(p)
                /\ UNCHANGED <<downloadSize, downloadError>>
           ELSE InitialiseDownload(p, fault)
        /\ faults' = Spend(fault)
        /\ VisitDone(p, reload, 0)
        /\ UNCHANGED <<downloadDirectory, fileChunkHashes, truncateFrom, cancelDownload>>
        /\ UNCHANGED <<remoteState, remoteSize, free, file, fileAt, taskCap, statFinds>>
        /\ UNCHANGED <<taskVars, histVars>>

\* plot.go SetDownloadDirectory: opens the file in dir (created when it is not
\* there), keeps the handle and the directory
SetDownloadDirectory(p, dir, openFails) ==
    IF openFails
    THEN /\ downloadError' = [downloadError EXCEPT ![p] = TRUE]
         /\ UNCHANGED <<downloadDirectory, downloadState, fileAt, file>>
    ELSE /\ fileAt' = [fileAt EXCEPT ![p] = dir]
         /\ file' = IF fileAt[p] = dir THEN file ELSE [file EXCEPT ![p] = <<>>]
         /\ downloadDirectory' = [downloadDirectory EXCEPT ![p] = dir]
         /\ downloadState' = updateDownloadState(p, DownloadStateWaitingForHashes)
         /\ UNCHANGED downloadError

\* Published, LookingForDownloadDirectory: allocate a directory
ProcessAllocate(p, reload) ==
    \E fault \in FaultChoices :
        /\ ~ctxDone \/ ~reload
        /\ NewState(p, reload) = StatePublished
        /\ downloadState[p] = DownloadStateLookingForDownloadDirectory
        /\ State' = [State EXCEPT ![p] = NewState(p, reload)]
        /\ IF getPlotDownloadDirectory(p, StatFilepath(p)) = ""
           THEN /\ ~fault
                /\ downloadError' = [downloadError EXCEPT ![p] = TRUE]
                /\ UNCHANGED <<downloadDirectory, downloadState, fileAt, file>>
           ELSE SetDownloadDirectory(p, getPlotDownloadDirectory(p, StatFilepath(p)), fault)
        /\ resumedFrom' = IF downloadDirectory'[p] = "" THEN resumedFrom
                          ELSE [resumedFrom EXCEPT ![p] =
                                   IF fileAt[p] = "" THEN "-" ELSE fileAt[p]]
        /\ faults' = Spend(fault)
        /\ VisitDone(p, reload, 0)
        /\ UNCHANGED <<downloadSize, fileChunkHashes, truncateFrom, cancelDownload>>
        /\ UNCHANGED <<remoteState, remoteSize, free, taskCap, statFinds, taskVars,
                       validated, deleted, recorded>>

\* a SetFileHashes that takes a list short of a hash as well (C35 does not
\* survive it)
SetFileHashes_TakesShort(p, n) ==
    /\ fileChunkHashes' = [fileChunkHashes EXCEPT ![p] = n]
    /\ downloadState' = updateDownloadState(p, DownloadStateNotStarted)

\* plot.go SetFileHashes
SetFileHashes(p, n) ==
    IF n < requiredNumberOfFileHashes(p)
    THEN UNCHANGED <<fileChunkHashes, downloadState>>
    ELSE /\ fileChunkHashes' = [fileChunkHashes EXCEPT ![p] = n]
         /\ downloadState' = updateDownloadState(p, DownloadStateNotStarted)

\* the answers a GetHashesForPlot call for p may get: none once the context is
\* cancelled; else every hash of the plot, or what the run's remote answers
\* instead
HashesReplies(p) ==
    IF ctxDone THEN {NoResponse}
    ELSE {GoodReply(p)} \cup (IF faults > 0 THEN taskCap.replies ELSE {})

\* process(): client.GetHashesForPlot returned an error, ErrPlotHashesNotReady
\* or another: the error flag is set and the visit of the plot ends
GetHashesFailed(p) ==
    /\ downloadError' = [downloadError EXCEPT ![p] = TRUE]
    /\ UNCHANGED <<fileChunkHashes, downloadState>>

\* Published, WaitingForHashes: client.GetHashesForPlot, then SetFileHashes
ProcessHashes(p, reload) ==
    \E reply \in HashesReplies(p) :
        LET r == GetHashesForPlot(reply)
            fault == ~ctxDone /\ reply # GoodReply(p)
        IN  /\ ~ctxDone \/ ~reload
            /\ NewState(p, reload) = StatePublished
            /\ downloadState[p] = DownloadStateWaitingForHashes
            /\ State' = [State EXCEPT ![p] = NewState(p, reload)]
            /\ IF r.err # ""
               THEN GetHashesFailed(p)
               ELSE SetFileHashes(p, r.n) /\ UNCHANGED downloadError
            /\ hashesCall' = [hashesCall EXCEPT ![p] = [reply |-> reply, result |-> r.err]]
            /\ faults' = Spend(fault)
            /\ VisitDone(p, reload, 0)
            /\ UNCHANGED <<downloadDirectory, downloadSize, truncateFrom, cancelDownload>>
            /\ UNCHANGED <<remoteState, remoteSize, free, file, fileAt, taskCap, statFinds>>
            /\ UNCHANGED <<taskVars, validated, deleted, resumedFrom, downloadHistory,
                           taken>>

\* Published, NotStarted: a directory is looked for only while the plot has none;
\* then a PrepareDownload task is spawned
ProcessNotStarted(p, reload) ==
    \E t \in PrepSlots :
        /\ ~ctxDone \/ ~reload
        /\ NewState(p, reload) = StatePublished
        /\ downloadState[p] = DownloadStateNotStarted
        /\ downloadDirectory[p] # ""
        /\ prep[p][t].pc = "idle"
        /\ \A u \in PrepSlots : u < t => prep[p][u].pc # "idle"
        /\ State' = [State EXCEPT ![p] = NewState(p, reload)]
        /\ prep' = [prep EXCEPT ![p][t] = [pc |-> "spawned", chunk |-> 0]]
        /\ VisitDone(p, reload, 0)
        /\ UNCHANGED <<downloadState, downloadDirectory, downloadSize, fileChunkHashes,
                       downloadError, truncateFrom, cancelDownload>>
        /\ UNCHANGED <<envVars, dl, val, rec, histVars>>

\* Published, Ready: proc.downloads.Add(1) and a Download task is spawned
ProcessReady(p, reload) ==
    \E t \in Slots :
        /\ ~ctxDone \/ ~reload
        /\ NewState(p, reload) = StatePublished
        /\ downloadState[p] = DownloadStateReady
        /\ SlotFree(p, t)
        /\ \A u \in Slots : u < t => ~SlotFree(p, u)
        /\ State' = [State EXCEPT ![p] = NewState(p, reload)]
        /\ dl' = [dl EXCEPT ![p][t] = [IdleTask EXCEPT !.pc = "spawned"]]
        /\ downloads' = downloads + 1
        /\ Advance(p, 0)
        /\ schedule' = IF reload THEN [schedule EXCEPT ![p] = "set"] ELSE schedule
        /\ UNCHANGED <<nplots, maxDownloads>>
        /\ UNCHANGED <<downloadState, downloadDirectory, downloadSize, fileChunkHashes,
                       downloadError, truncateFrom, cancelDownload>>
        /\ UNCHANGED <<envVars, val, rec, prep, histVars>>

\* a RetryDownload that also forgets the directory, so that the retry would
\* allocate again (C10 does not survive it)
RetryDownload_Forgets(p) ==
    /\ dl' = IF cancelDownload[p] # NoTask
             THEN [dl EXCEPT ![p][cancelDownload[p]].cancelled = TRUE]
             ELSE dl
    /\ downloadState' = updateDownloadState(p, DownloadStateReady)
    /\ downloadDirectory' = [downloadDirectory EXCEPT ![p] = ""]
    /\ UNCHANGED <<downloadSize, fileChunkHashes, downloadError, truncateFrom,
                   cancelDownload>>

\* plot.go RetryDownload: cancels the Download cancelDownload belongs to, if any;
\* the state becomes Ready, the other fields stay
RetryDownload(p) ==
    /\ dl' = IF cancelDownload[p] # NoTask
             THEN [dl EXCEPT ![p][cancelDownload[p]].cancelled = TRUE]
             ELSE dl
    /\ downloadState' = updateDownloadState(p, DownloadStateReady)
    /\ UNCHANGED <<downloadDirectory, downloadSize, fileChunkHashes,
                   downloadError, truncateFrom, cancelDownload>>

\* Published, Failed or FailedValidation: RetryDownload
ProcessRetry(p, reload) ==
    /\ ~ctxDone \/ ~reload
    /\ NewState(p, reload) = StatePublished
    /\ downloadState[p] \in {DownloadStateFailed, DownloadStateFailedValidation}
    /\ State' = [State EXCEPT ![p] = NewState(p, reload)]
    /\ RetryDownload(p)
    /\ VisitDone(p, reload, 0)
    /\ UNCHANGED <<envVars, val, rec, prep, histVars>>

\* a visit in Downloaded that does not take over the state DeletePlot answers:
\* the plot stays Published for the processor (C20 does not survive it)
ProcessDownloaded_KeepsState(p, reload) ==
    \E fault \in FaultChoices :
        /\ ~ctxDone \/ ~reload
        /\ ctxDone => ~fault
        /\ NewState(p, reload) = StatePublished
        /\ downloadState[p] = DownloadStateDownloaded
        /\ IF ctxDone \/ fault
           THEN /\ State' = [State EXCEPT ![p] = NewState(p, reload)]
                /\ UNCHANGED <<remoteState, deleted, schedule>>
           ELSE /\ remoteState' = [remoteState EXCEPT ![p] = StateExpired]
                /\ State' = [State EXCEPT ![p] = NewState(p, reload)]
                /\ deleted' = [deleted EXCEPT ![p] = @ + 1]
                /\ schedule' = IF reload THEN [schedule EXCEPT ![p] = "set"] ELSE schedule
        /\ faults' = Spend(fault)
        /\ Advance(p, 0)
        /\ UNCHANGED <<nplots, maxDownloads, downloads>>
        /\ UNCHANGED <<downloadState, downloadDirectory, downloadSize, fileChunkHashes,
                       downloadError, truncateFrom, cancelDownload>>
        /\ UNCHANGED <<remoteSize, free, file, fileAt, taskCap, statFinds, taskVars, validated,
                       resumedFrom, recorded>>

\* Published, Downloaded: client.DeletePlot marks the plot expired; on a failure
\* the visit ends without touching the schedule
ProcessDownloaded(p, reload) ==
    \E fault \in FaultChoices :
        /\ ~ctxDone \/ ~reload
        /\ ctxDone => ~fault
        /\ NewState(p, reload) = StatePublished
        /\ downloadState[p] = DownloadStateDownloaded
        /\ IF ctxDone \/ fault
           THEN /\ State' = [State EXCEPT ![p] = NewState(p, reload)]
                /\ UNCHANGED <<remoteState, deleted, schedule>>
           ELSE /\ remoteState' = [remoteState EXCEPT ![p] = StateExpired]
                /\ State' = [State EXCEPT ![p] = StateExpired]
                /\ deleted' = [deleted EXCEPT ![p] = @ + 1]
                /\ schedule' = IF reload THEN [schedule EXCEPT ![p] = "set"] ELSE schedule
        /\ faults' = Spend(fault)
        /\ Advance(p, 0)
        /\ UNCHANGED <<nplots, maxDownloads, downloads>>
        /\ UNCHANGED <<downloadState, downloadDirectory, downloadSize, fileChunkHashes,
                       downloadError, truncateFrom, cancelDownload>>
        /\ UNCHANGED <<remoteSize, free, file, fileAt, taskCap, statFinds, taskVars, validated,
                       resumedFrom, recorded>>

\* process(): a plot that is no longer on the schedule is skipped
ProcessSkip(p) ==
    /\ schedule[p] = "none"
    /\ Advance(p, 0)
    /\ UNCHANGED <<nplots, maxDownloads, schedule, downloads>>
    /\ UNCHANGED <<envVars, plotVars, taskVars, histVars>>

\* process(): the body of the loop for a plot on the schedule, reloading it or not
Visit(p, reload) ==
    /\ AtPlot(p)
    /\ schedule[p] # "none"
    /\ reload \in Reloads(p)
    /\ \/ ProcessGetPlotError(p, reload)
       \/ ProcessIdle(p, reload)
       \/ ProcessExpiredOrCancelled(p, reload)
       \/ ProcessAdmit(p, reload)
       \/ ProcessAllocate(p, reload)
       \/ ProcessHashes(p, reload)
       \/ ProcessNotStarted(p, reload)
       \/ ProcessReady(p, reload)
       \/ ProcessRetry(p, reload)
       \/ ProcessDownloaded(p, reload)

\* process(): the visit of the next plot
ProcessPlot ==
    \E p \in Order :
        /\ AtPlot(p)
        /\ \/ ProcessSkip(p)
           \/ \E reload \in BOOLEAN : Visit(p, reload)

\* ------------------------------------------------ PrepareDownload task
\* a PrepareDownload that takes the chunk the file ends in, not the last full
\* one (C33 does not survive it)
PrepareDownloadBegin_EndChunk(p, t) ==
    /\ prep[p][t].pc = "spawned"
    /\ downloadError' = [downloadError EXCEPT ![p] = FALSE]
    /\ LET downloaded == Len(file[p])
       IN  IF downloaded = downloadSize[p]
           THEN /\ downloadState' = updateDownloadState(p, DownloadStateDownloaded)
                /\ prep' = [prep EXCEPT ![p][t] = IdlePrep]
           ELSE IF downloaded = 0 \/ downloaded < hashChunkSize
           THEN /\ downloadState' = updateDownloadState(p, DownloadStateReady)
                /\ prep' = [prep EXCEPT ![p][t] = IdlePrep]
           ELSE /\ downloadState' = updateDownloadState(p, DownloadStateInitialValidation)
                /\ prep' = [prep EXCEPT ![p][t] =
                               [pc |-> "validating",
                                chunk |-> downloaded \div hashChunkSize]]
    /\ UNCHANGED <<State, downloadDirectory, downloadSize, fileChunkHashes,
                   truncateFrom, cancelDownload>>
    /\ UNCHANGED <<envVars, procVars, dl, val, rec, histVars>>

\* PrepareDownload up to the validation of the last full chunk
PrepareDownloadBegin(p, t) ==
    /\ prep[p][t].pc = "spawned"
    /\ downloadError' = [downloadError EXCEPT ![p] = FALSE]
    /\ LET downloaded == Len(file[p])
       IN  IF downloaded = downloadSize[p]
           THEN /\ downloadState' = updateDownloadState(p, DownloadStateDownloaded)
                /\ prep' = [prep EXCEPT ![p][t] = IdlePrep]
           ELSE IF downloaded = 0 \/ downloaded < hashChunkSize
           THEN /\ downloadState' = updateDownloadState(p, DownloadStateReady)
                /\ prep' = [prep EXCEPT ![p][t] = IdlePrep]
           ELSE /\ downloadState' = updateDownloadState(p, DownloadStateInitialValidation)
                /\ prep' = [prep EXCEPT ![p][t] =
                               [pc |-> "validating",
                                chunk |-> (downloaded \div hashChunkSize) - 1]]
    /\ UNCHANGED <<State, downloadDirectory, downloadSize, fileChunkHashes,
                   truncateFrom, cancelDownload>>
    /\ UNCHANGED <<envVars, procVars, dl, val, rec, histVars>>

\* PrepareDownload: validateChunk returns; an error makes the state Failed and
\* the caller sets the error flag
PrepareDownloadValidated(p, t) ==
    /\ prep[p][t].pc = "validating"
    /\ LET number == prep[p][t].chunk
           r == validateChunk(p, number)
       IN  /\ downloadState' = updateDownloadState(p,
                 CASE r = "valid" -> DownloadStateReady
                   [] r = "invalid" -> DownloadStateFailedValidation
                   [] OTHER -> DownloadStateFailed)
           /\ truncateFrom' = IF r = "invalid"
                              THEN [truncateFrom EXCEPT ![p] = number * hashChunkSize]
                              ELSE truncateFrom
           /\ downloadError' = IF r = "error"
                               THEN [downloadError EXCEPT ![p] = TRUE]
                               ELSE downloadError
           /\ validated' = IF r = "valid"
                           THEN [validated EXCEPT ![p] = @ \cup {number}]
                           ELSE validated
    /\ prep' = [prep EXCEPT ![p][t] = IdlePrep]
    /\ UNCHANGED <<State, downloadDirectory, downloadSize, fileChunkHashes, cancelDownload>>
    /\ UNCHANGED <<envVars, procVars, dl, val, rec, deleted, resumedFrom, recorded>>

\* ------------------------------------------------------- Download task
\* a Truncate that leaves a file longer than off as it is (C34 does not
\* survive it)
Truncated_KeepsTail(f, off) ==
    IF off <= Len(f) THEN f
    ELSE f \o [i \in 1 .. off - Len(f) |-> FALSE]

\* the file after p.f.Truncate(off): cut, or padded with units that are not the
\* remote's when it was shorter
Truncated(f, off) ==
    IF off <= Len(f) THEN SubSeq(f, 1, off)
    ELSE f \o [i \in 1 .. off - Len(f) |-> FALSE]

\* the status the server answers a GET from offset d with: 200 for the whole
\* file, 206 for a range it can serve, 416 for a range that starts at the end
ServerStatus(p, d) ==
    IF d = 0 THEN 200 ELSE IF d < remoteSize[p] THEN 206 ELSE 416

\* Download up to the start of its routines: cancelDownload is set, the file is
\* truncated when truncateFrom is set, the state becomes Downloading, the GET is
\* made; on the expected status the validator (which reads prevChunkN), the
\* recorder and the reader are started, otherwise Download is about to return
\* the error
DownloadStart(p, t) ==
    \E fault \in FaultChoices :
        /\ dl[p][t].pc = "spawned"
        /\ cancelDownload' = [cancelDownload EXCEPT ![p] = t]
        /\ LET cut == truncateFrom[p] # NoOffset
               downloadedBytes == IF cut THEN truncateFrom[p] ELSE getDownloadedBytes(p)
               expectedStatusCode == IF downloadedBytes > 0 THEN 206 ELSE 200
           IN  /\ IF cut
                  THEN /\ file' = [file EXCEPT ![p] = Truncated(@, truncateFrom[p])]
                       /\ free' = Written(downloadDirectory[p],
                                          truncateFrom[p] - Len(file[p]))
                       /\ validated' = [validated EXCEPT ![p] =
                             {k \in @ : (k + 1) * hashChunkSize <= truncateFrom[p]}]
                       /\ truncateFrom' = [truncateFrom EXCEPT ![p] = NoOffset]
                  ELSE UNCHANGED <<file, free, validated, truncateFrom>>
               /\ IF fault \/ ServerStatus(p, downloadedBytes) # expectedStatusCode
                  THEN /\ dl' = [dl EXCEPT ![p][t].pc = "done", ![p][t].err = TRUE]
                       /\ UNCHANGED <<val, rec>>
                  ELSE /\ dl' = [dl EXCEPT ![p][t].pc = "reading",
                                           ![p][t].pos = downloadedBytes]
                       /\ val' = [val EXCEPT ![p][t] =
                                     [IdleVal EXCEPT !.pc = "tick",
                                        !.prevChunkN = downloadedBytes \div hashChunkSize]]
                       /\ rec' = [rec EXCEPT ![p][t] = TRUE]
        /\ downloadState' = updateDownloadState(p, DownloadStateDownloading)
        /\ faults' = Spend(fault)
        /\ UNCHANGED <<State, downloadDirectory, downloadSize, fileChunkHashes, downloadError>>
        /\ UNCHANGED <<remoteState, remoteSize, fileAt, taskCap, statFinds, procVars, prep, deleted,
                       resumedFrom, recorded>>

\* the reader: one round of its loop. A cancelled context ends it; otherwise a
\* unit of the body is appended to the file (a write that fails is ignored), or
\* the body ends, or the read fails
ReaderStep(p, t) ==
    \E fault \in FaultChoices, failed \in BOOLEAN :
        /\ dl[p][t].pc = "reading"
        /\ failed => fault
        /\ LET d == downloadDirectory[p]
               pos == dl[p][t].pos
               good == pos = Len(file[p]) /\ ~fault
           IN  IF TaskCtxDone(p, t)
               THEN /\ ~fault
                    /\ dl' = [dl EXCEPT ![p][t].pc = "done"]
                    /\ UNCHANGED <<file, free>>
               ELSE IF pos >= remoteSize[p]
               THEN /\ ~fault
                    /\ dl' = [dl EXCEPT ![p][t].pc = "done"]
                    /\ UNCHANGED <<file, free>>
               ELSE IF failed
               THEN /\ dl' = [dl EXCEPT ![p][t].pc = "done", ![p][t].err = TRUE]
                    /\ UNCHANGED <<file, free>>
               ELSE IF free[d] = 0 \/ dl[p][t].werr
               THEN /\ dl' = [dl EXCEPT ![p][t].pos = pos + 1, ![p][t].werr = TRUE]
                    /\ UNCHANGED <<file, free>>
               ELSE /\ dl' = [dl EXCEPT ![p][t].pos = pos + 1]
                    /\ file' = [file EXCEPT ![p] = Append(@, good)]
                    /\ free' = Written(d, 1)
        /\ faults' = Spend(fault)
        /\ UNCHANGED <<remoteState, remoteSize, fileAt, taskCap, statFinds>>
        /\ UNCHANGED <<procVars, plotVars, val, rec, prep, histVars>>

\* a Download whose deferred function leaves the state alone when the Download
\* returns an error (C25 does not survive it)
DownloadEnd_KeepsState(p, t) ==
    /\ dl[p][t].pc = "done"
    /\ downloadState' =
          IF dl[p][t].err THEN downloadState
          ELSE IF getDownloadedBytes(p) = downloadSize[p]
          THEN updateDownloadState(p, DownloadStateDownloaded)
          ELSE downloadState
    /\ cancelDownload' = [cancelDownload EXCEPT ![p] = NoTask]
    /\ dl' = [dl EXCEPT ![p][t] = [IdleTask EXCEPT !.cancelled = TRUE]]
    /\ downloads' = downloads - 1
    /\ UNCHANGED <<nplots, maxDownloads, ppc, idx, expiredOrCancelled, schedule,
                   ctxDone, result>>
    /\ UNCHANGED <<State, downloadDirectory, downloadSize, fileChunkHashes,
                   downloadError, truncateFrom>>
    /\ UNCHANGED <<envVars, val, rec, prep, histVars>>

\* Download returns: the deferred state update, cancel(), cancelDownload = nil;
\* then proc.downloads.Done()
DownloadEnd(p, t) ==
    /\ dl[p][t].pc = "done"
    /\ downloadState' =
          IF dl[p][t].err THEN updateDownloadState(p, DownloadStateFailed)
          ELSE IF getDownloadedBytes(p) = downloadSize[p]
          THEN updateDownloadState(p, DownloadStateDownloaded)
          ELSE downloadState
    /\ cancelDownload' = [cancelDownload EXCEPT ![p] = NoTask]
    /\ dl' = [dl EXCEPT ![p][t] = [IdleTask EXCEPT !.cancelled = TRUE]]
    /\ downloads' = downloads - 1
    /\ UNCHANGED <<nplots, maxDownloads, ppc, idx, expiredOrCancelled, schedule,
                   ctxDone, result>>
    /\ UNCHANGED <<State, downloadDirectory, downloadSize, fileChunkHashes,
                   downloadError, truncateFrom>>
    /\ UNCHANGED <<envVars, val, rec, prep, histVars>>

\* ----------------------------------------------------- live validator
\* a tick of the validator: a chunk boundary was passed or the file is complete,
\* and a validation starts; or there is nothing to validate and the context is
\* cancelled, which ends the validator
ValidatorTick(p, t) ==
    /\ val[p][t].pc = "tick"
    /\ LET downloaded == getDownloadedBytes(p)
           currChunkN == downloaded \div hashChunkSize
           prevChunkN == val[p][t].prevChunkN
       IN  IF currChunkN # prevChunkN \/ downloaded = downloadSize[p]
           THEN /\ val' = [val EXCEPT ![p][t] =
                              [pc |-> "validating",
                               prevChunkN |-> prevChunkN,
                               currChunkN |-> currChunkN,
                               chunk |-> IF downloaded = downloadSize[p]
                                         THEN currChunkN ELSE prevChunkN,
                               prevState |-> downloadState[p]]]
                /\ downloadState' = updateDownloadState(p, DownloadStateLiveValidation)
           ELSE /\ TaskCtxDone(p, t)
                /\ val' = [val EXCEPT ![p][t] = IdleVal]
                /\ UNCHANGED downloadState
    /\ UNCHANGED <<State, downloadDirectory, downloadSize, fileChunkHashes,
                   downloadError, truncateFrom, cancelDownload>>
    /\ UNCHANGED <<envVars, procVars, dl, rec, prep, histVars>>

\* the validator: validateChunk returns; FailedValidation ends the validator,
\* a valid chunk restores the state read before the validation, and the
\* context is looked at after that
ValidatorValidated(p, t) ==
    /\ val[p][t].pc = "validating"
    /\ LET number == val[p][t].chunk
           r == validateChunk(p, number)
       IN  IF r = "valid"
           THEN /\ downloadState' = updateDownloadState(p, val[p][t].prevState)
                /\ validated' = [validated EXCEPT ![p] = @ \cup {number}]
                /\ val' = [val EXCEPT ![p][t] =
                              IF TaskCtxDone(p, t) THEN IdleVal
                              ELSE [IdleVal EXCEPT !.pc = "tick",
                                                   !.prevChunkN = val[p][t].currChunkN]]
                /\ UNCHANGED truncateFrom
           ELSE /\ downloadState' = updateDownloadState(p, DownloadStateFailedValidation)
                /\ truncateFrom' = IF r = "invalid"
                                   THEN [truncateFrom EXCEPT ![p] = number * hashChunkSize]
                                   ELSE truncateFrom
                /\ val' = [val EXCEPT ![p][t] = IdleVal]
                /\ UNCHANGED validated
    /\ UNCHANGED <<State, downloadDirectory, downloadSize, fileChunkHashes,
                   downloadError, cancelDownload>>
    /\ UNCHANGED <<envVars, procVars, dl, rec, prep, deleted, resumedFrom, recorded>>

\* a recorder whose loop does not look at its context: it ticks on (C7 does not
\* survive it)
RecorderTick_NeverEnds(p, t) ==
    /\ rec[p][t]
    /\ TaskCtxDone(p, t)
    /\ UNCHANGED vars

\* a tick of the recorder: a sample is recorded, and a cancelled context ends
\* the recorder after it. The history is followed for the first
\* taskCap.samples samples of a plot; past them only the tick that ends the
\* recorder is taken
RecorderTick(p, t) ==
    /\ rec[p][t]
    /\ Len(taken[p]) < taskCap.samples \/ TaskCtxDone(p, t)
    /\ IF Len(taken[p]) < taskCap.samples
       THEN LET now == Len(taken[p]) + 1
            IN  /\ downloadHistory' =
                      [downloadHistory EXCEPT ![p] = recordDownloadedBytes(p, now)]
                /\ taken' = [taken EXCEPT ![p] =
                                Append(@, [bytes |-> getDownloadedBytes(p), time |-> now])]
       ELSE UNCHANGED <<downloadHistory, taken>>
    /\ rec' = IF TaskCtxDone(p, t) THEN [rec EXCEPT ![p][t] = FALSE] ELSE rec
    /\ UNCHANGED <<envVars, procVars, plotVars, dl, val, prep, validated, deleted,
                   resumedFrom, hashesCall>>

\* ---------------------------------------------------------------- panics
\* PrepareDownload panics (p.f.Stat() fails and the nil fInfo is used, or the
\* like in validateChunk): the deferred recover turns the panic into the error
\* PrepareDownload returns, the deferred state update sets Failed, and the
\* goroutine of the tick sets the error flag
PrepareDownloadPanic(p, t) ==
    /\ faults > 0
    /\ prep[p][t].pc # "idle"
    /\ downloadState' = updateDownloadState(p, DownloadStateFailed)
    /\ downloadError' = [downloadError EXCEPT ![p] = TRUE]
    /\ prep' = [prep EXCEPT ![p][t] = IdlePrep]
    /\ faults' = faults - 1
    /\ UNCHANGED <<State, downloadDirectory, downloadSize, fileChunkHashes, truncateFrom,
                   cancelDownload>>
    /\ UNCHANGED <<remoteState, remoteSize, free, file, fileAt, taskCap, statFinds>>
    /\ UNCHANGED <<procVars, dl, val, rec, histVars>>

\* Download panics in getDownloadedBytes before the request (there is nothing
\* to truncate): the deferred recover turns the panic into the error Download
\* is about to return
DownloadPanic(p, t) ==
    /\ faults > 0
    /\ dl[p][t].pc = "spawned"
    /\ truncateFrom[p] = NoOffset
    /\ cancelDownload' = [cancelDownload EXCEPT ![p] = t]
    /\ downloadState' = updateDownloadState(p, DownloadStateDownloading)
    /\ dl' = [dl EXCEPT ![p][t].pc = "done", ![p][t].err = TRUE]
    /\ faults' = faults - 1
    /\ UNCHANGED <<State, downloadDirectory, downloadSize, fileChunkHashes, downloadError,
                   truncateFrom>>
    /\ UNCHANGED <<remoteState, remoteSize, free, file, fileAt, taskCap, statFinds>>
    /\ UNCHANGED <<procVars, val, rec, prep, histVars>>

\* a routine that Download started panics (the reader; the validator or the
\* recorder when Stat fails in getDownloadedBytes): its goroutine defers no
\* recover, so the runtime ends the process and every routine with it
RoutinePanic(p, t) ==
    /\ faults > 0
    /\ ppc # "returned"
    /\ dl[p][t].pc = "reading" \/ val[p][t].pc # "off" \/ rec[p][t]
    /\ ppc' = "returned"
    /\ result' = "panic"
    /\ downloads' = 0
    /\ dl' = [q \in Plots |-> [u \in Tasks |-> IdleTask]]
    /\ val' = [q \in Plots |-> [u \in Tasks |-> IdleVal]]
    /\ rec' = [q \in Plots |-> [u \in Tasks |-> FALSE]]
    /\ prep' = [q \in Plots |-> [u \in Tasks |-> IdlePrep]]
    /\ faults' = faults - 1
    /\ UNCHANGED <<nplots, maxDownloads, idx, expiredOrCancelled, schedule, ctxDone>>
    /\ UNCHANGED <<remoteState, remoteSize, free, file, fileAt, taskCap, statFinds>>
    /\ UNCHANGED <<plotVars, histVars>>

\* a panic in one of the tasks of a plot
Panic ==
    \/ \E p \in Order, t \in PrepSlots : PrepareDownloadPanic(p, t)
    \/ \E p \in Order, t \in Slots : DownloadPanic(p, t)
    \/ \E p \in Order, t \in Slots : RoutinePanic(p, t)

\* ------------------------------------------------------------------ Next
\* the processor's tick, the remote's progress and the routines of the plots
Run ==
    \/ ProcessPlot
    \/ \E p \in Order : RemoteAdvance(p)
    \/ \E p \in Order, t \in PrepSlots : PrepareDownloadBegin(p, t)
    \/ \E p \in Order, t \in PrepSlots : PrepareDownloadValidated(p, t)
    \/ \E p \in Order, t \in Slots : DownloadStart(p, t)
    \/ \E p \in Order, t \in Slots : ReaderStep(p, t)
    \/ \E p \in Order, t \in Slots : DownloadEnd(p, t)
    \/ \E p \in Order, t \in Slots : ValidatorTick(p, t)
    \/ \E p \in Order, t \in Slots : ValidatorValidated(p, t)
    \/ \E p \in Order, t \in Slots : RecorderTick(p, t)

\* the signal and what follows it in Start
Stop ==
    \/ RootCancel
    \/ StartCtxDone
    \/ StartWaited

Next ==
    \/ Run
    \/ Stop
    \/ StartNoSpace
    \/ \E p \in Order : RemoteCancel(p)

\* a run in which the tasks may panic
RunOrPanic ==
    \/ Run
    \/ Panic

\* ---------------------------------------------------------------- runs
EveryDir(b) == [d \in Dirs |-> b]
FirstDirSmall == [d \in Dirs |-> IF d = plotDirs[1] THEN SmallDisk ELSE BigDisk]

\* the first directory has room for one whole plot
FirstDirFitsOne == [d \in Dirs |-> IF d = plotDirs[1] THEN MaxSize ELSE BigDisk]

\* a file an earlier run left in the first directory: its first chunk, intact
Resumed == <<plotDirs[1], <<TRUE, TRUE>>>>

\* a file an earlier run left in the second directory
Elsewhere == <<plotDirs[2], <<TRUE, TRUE>>>>

\* the hashes endpoint answers 400 without a body, or a list that is short of a
\* hash, or not at all
Unready == {Reply(400, "empty", 0), Reply(200, "list", 1), NoResponse}

\* one plot, a small first directory, an environment that injects failures
Init ==
    InitWith([n |-> 1, md |-> 0, free |-> FirstDirSmall, faults |-> MaxFaults,
              dl |-> 1, prep |-> 1, sizes |-> Sizes, files |-> {NoFile, Resumed},
              stat |-> BOOLEAN, replies |-> Unready, samples |-> 0,
              volumes |-> OwnVolumes])

\* one plot, nothing fails, room everywhere
InitQuiet ==
    InitWith([n |-> 1, md |-> 0, free |-> EveryDir(BigDisk), faults |-> 0,
              dl |-> 1, prep |-> 1, sizes |-> Sizes, files |-> {NoFile, Resumed},
              stat |-> {TRUE}, replies |-> Unready, samples |-> 0,
              volumes |-> OwnVolumes])

\* one resumed plot that may have several Download tasks alive
InitPair ==
    InitWith([n |-> 1, md |-> 0, free |-> EveryDir(BigDisk), faults |-> 0,
              dl |-> MaxTasks, prep |-> 1, sizes |-> {MaxSize}, files |-> {Resumed},
              stat |-> {TRUE}, replies |-> Unready, samples |-> 0,
              volumes |-> OwnVolumes])

\* an order of several plots under --max-downloads, failures injected
InitOrder ==
    InitWith([n |-> MaxPlots, md |-> MaxPlots - 1, free |-> FirstDirSmall,
              faults |-> MaxFaults, dl |-> 1, prep |-> 1, sizes |-> {MaxSize},
              files |-> {Resumed}, stat |-> {TRUE}, replies |-> Unready, samples |-> 0,
              volumes |-> OwnVolumes])

\* an order of several plots under --max-downloads, nothing fails
InitOrderQuiet ==
    InitWith([n |-> MaxPlots, md |-> MaxPlots - 1, free |-> EveryDir(BigDisk),
              faults |-> 0, dl |-> 1, prep |-> 1, sizes |-> {MaxSize},
              files |-> {Resumed}, stat |-> {TRUE}, replies |-> Unready, samples |-> 0,
              volumes |-> OwnVolumes])

\* an order of several plots, with and without files of earlier runs in either
\* directory, nothing fails
InitPlace ==
    InitWith([n |-> MaxPlots, md |-> 0, free |-> FirstDirFitsOne, faults |-> 0,
              dl |-> 1, prep |-> 1, sizes |-> {MaxSize},
              files |-> {NoFile, Resumed, Elsewhere}, stat |-> BOOLEAN, replies |-> Unready, samples |-> 0,
              volumes |-> OwnVolumes])

\* a plot of two chunks and a short one
LongSize == 2 * hashChunkSize + 1

\* the first b units of a plot's file, as the remote has them
Prefix(b) == [i \in 1 .. b |-> TRUE]

\* the first b units with unit j overwritten
Corrupted(b, j) == [i \in 1 .. b |-> i # j]

\* one plot whose download an earlier run left at some offset, nothing fails
InitResume ==
    /\ InitWith([n |-> 1, md |-> 0, free |-> EveryDir(BigDisk), faults |-> 0,
                 dl |-> 1, prep |-> 1, sizes |-> hashChunkSize .. LongSize,
                 files |-> {NoFile} \cup {<<plotDirs[1], Prefix(b)>> : b \in 1 .. LongSize - 1},
                 stat |-> BOOLEAN, replies |-> Unready, samples |-> 0,
              volumes |-> OwnVolumes])
    /\ \A p \in Plots : Len(file[p]) = 0 \/ Len(file[p]) < remoteSize[p]

\* one plot whose partial file has a unit of one of its complete chunks
\* overwritten since the earlier run, nothing fails
InitRepair ==
    InitWith([n |-> 1, md |-> 0, free |-> EveryDir(BigDisk), faults |-> 0,
              dl |-> 1, prep |-> 1, sizes |-> {LongSize},
              files |-> {<<plotDirs[1], Corrupted(x[1], x[2])>> :
                            x \in {y \in (hashChunkSize .. LongSize - 1) \X
                                             (1 .. LongSize - 1) :
                                      y[2] <= (y[1] \div hashChunkSize) * hashChunkSize}},
              stat |-> BOOLEAN, replies |-> Unready, samples |-> 0,
              volumes |-> OwnVolumes])

\* every answer of the hashes endpoint: each status with each kind of body
MaxHashes == (MaxSize + hashChunkSize - 1) \div hashChunkSize
AnyReply ==
    {Reply(c, b, 0) : c \in Statuses, b \in Bodies \ {"list"}}
      \cup {Reply(c, "list", n) : c \in Statuses, n \in 0 .. MaxHashes}
      \cup {NoResponse}

\* one plot, a remote whose hashes endpoint may answer anything once
InitHashes ==
    InitWith([n |-> 1, md |-> 0, free |-> FirstDirSmall, faults |-> MaxFaults,
              dl |-> 1, prep |-> 1, sizes |-> Sizes, files |-> {NoFile, Resumed},
              stat |-> {TRUE}, replies |-> AnyReply, samples |-> 0,
              volumes |-> OwnVolumes])

\* one plot, room everywhere, an environment that injects one failure or panic
InitPanic ==
    InitWith([n |-> 1, md |-> 0, free |-> EveryDir(BigDisk), faults |-> MaxFaults,
              dl |-> 1, prep |-> 1, sizes |-> Sizes, files |-> {NoFile, Resumed},
              stat |-> {TRUE}, replies |-> Unready, samples |-> 0,
              volumes |-> OwnVolumes])

\* one plot, nothing fails, the download history is followed
InitRecord ==
    InitWith([n |-> 1, md |-> 0, free |-> EveryDir(BigDisk), faults |-> 0,
              dl |-> 1, prep |-> 1, sizes |-> {MaxSize}, files |-> {NoFile, Resumed},
              stat |-> {TRUE}, replies |-> Unready, samples |-> MaxSamples,
              volumes |-> OwnVolumes])

\* one plot with any file an earlier run may have left, whole or partial, intact
\* or with a unit overwritten, nothing fails
InitPrepare ==
    /\ InitWith([n |-> 1, md |-> 0, free |-> EveryDir(BigDisk), faults |-> 0,
                 dl |-> 1, prep |-> 1, sizes |-> hashChunkSize .. LongSize,
                 files |-> {NoFile}
                             \cup {<<plotDirs[1], Prefix(b)>> : b \in 1 .. LongSize}
                             \cup {<<plotDirs[1], Corrupted(b, j)>> :
                                       b \in 1 .. LongSize, j \in 1 .. LongSize},
                 stat |-> {TRUE}, replies |-> Unready, samples |-> 0,
              volumes |-> OwnVolumes])
    /\ \A p \in Plots : Len(file[p]) <= remoteSize[p]

\* one resumed plot that may have several PrepareDownload tasks alive
InitPrepare2 ==
    InitWith([n |-> 1, md |-> 0, free |-> EveryDir(BigDisk), faults |-> 0,
              dl |-> 1, prep |-> MaxTasks, sizes |-> {MaxSize}, files |-> {Resumed},
              stat |-> {TRUE}, replies |-> Unready, samples |-> 0,
              volumes |-> OwnVolumes])

\* the two directories on one volume that has room for one whole plot and a
\* unit more; an order of several plots, nothing fails
OneMore == MaxSize + 1
InitShared ==
    InitWith([n |-> MaxPlots, md |-> 0, free |-> EveryDir(OneMore), faults |-> 0,
              dl |-> 1, prep |-> 1, sizes |-> {MaxSize}, files |-> {NoFile, Resumed},
              stat |-> {TRUE}, replies |-> Unready, samples |-> 0,
              volumes |-> OneVolume])

Spec == Init /\ [][Next]_vars
SpecRecord == InitRecord /\ [][Run]_vars
SpecPanic == InitPanic /\ [][RunOrPanic]_vars
SpecHashes == InitHashes /\ [][Next]_vars
SpecResume == InitResume /\ [][Run]_vars
SpecRepair == InitRepair /\ [][Run]_vars
SpecPlace == InitPlace /\ [][Run]_vars
SpecPair == InitPair /\ [][Run]_vars
SpecOrder == InitOrder /\ [][Next]_vars
SpecQuiet == InitQuiet /\ [][Run]_vars
SpecShared == InitShared /\ [][Run]_vars
SpecPrepare == InitPrepare /\ [][Run]_vars
SpecPrepare2 == InitPrepare2 /\ [][Run]_vars

\* Fairness. The ticker keeps ticking and a plot's scheduled time passes; the
\* remote gets on with plotting; every started routine keeps running; a select
\* with the cancelled context ready takes that case sooner or later.
TickFair == WF_vars(ProcessPlot) /\ \A p \in Plots : SF_vars(Visit(p, TRUE))
RemoteFair == \A p \in Plots : WF_vars(RemoteAdvance(p))
TaskFair ==
    \A p \in Plots, t \in Tasks :
        /\ WF_vars(PrepareDownloadBegin(p, t))
        /\ WF_vars(PrepareDownloadValidated(p, t))
        /\ WF_vars(DownloadStart(p, t))
        /\ WF_vars(ReaderStep(p, t))
        /\ WF_vars(DownloadEnd(p, t))
        /\ WF_vars(ValidatorTick(p, t))
        /\ WF_vars(ValidatorValidated(p, t))
        /\ WF_vars(RecorderTick(p, t))
StopFair == SF_vars(StartCtxDone) /\ WF_vars(StartWaited)

LiveRun == InitQuiet /\ [][Run]_vars /\ TickFair /\ RemoteFair /\ TaskFair
LiveStop == Init /\ [][Next]_vars /\ TickFair /\ RemoteFair /\ TaskFair /\ StopFair
LiveOrder == InitOrderQuiet /\ [][Run]_vars /\ TickFair /\ RemoteFair /\ TaskFair

\* ---------------------------------------------------------------- claims
\* the chunks of plot p's file: 0 .. ceil(downloadSize / hashChunkSize) - 1
ChunksOf(p) == 0 .. requiredNumberOfFileHashes(p) - 1

\* C1: a plot's downloadState is Downloaded only when its file has downloadSize
\* bytes and every chunk of it, the final short one included, was found valid
\* against fileChunkHashes since it was written.
C1_DownloadedIsValidated ==
    \A p \in Plots :
        downloadState[p] = DownloadStateDownloaded =>
            /\ Len(file[p]) = downloadSize[p]
            /\ ChunksOf(p) \subseteq validated[p]

\* C2: while truncateFrom is set (a validation found a mismatch and no Download
\* has truncated the file since), the plot is not Downloaded and DeletePlot was
\* not called for it.
C2_NoDownloadedBeforeTruncate ==
    \A p \in Plots :
        truncateFrom[p] # NoOffset =>
            downloadState[p] # DownloadStateDownloaded /\ deleted[p] = 0

\* C3: at most one Download task of a plot is alive (spawned and not returned).
C3_OneDownload ==
    \A p \in Plots : Cardinality(ActiveDownloads(p)) <= 1

\* C5: Start is never back at its select, waiting for another tick, when every
\* plot of the order was seen Expired or Cancelled and taken off the schedule:
\* the tick that saw the last of them ended with "finished".
C5_FinishedWhenAllOff ==
    (\A p \in Order : schedule[p] = "none") => ppc # "select"

\* C6: when Start has returned, by whichever path, no Download task it spawned
\* is still running.
C6_ReturnedAfterDownloads ==
    ppc = "returned" => downloads = 0 /\ \A p \in Plots : ActiveDownloads(p) = {}

\* no Download of any plot is alive, no validator, no recorder, and Start returned
Quiesced ==
    /\ ppc = "returned"
    /\ \A p \in Plots, t \in Tasks :
          dl[p][t].pc = "idle" /\ val[p][t].pc = "off" /\ ~rec[p][t]

\* C4: with nothing failing and room in every directory, a plot whose size is
\* not a multiple of the chunk size is eventually Expired on the remote through
\* DeletePlot.
C4_EventuallyExpired ==
    \A p \in Plots :
        (p <= nplots /\ remoteSize[p] % hashChunkSize # 0) => <>(deleted[p] > 0)

C8_CapHolds ==
    maxDownloads > 0 =>
        Cardinality({p \in Order :
            /\ State[p] = StatePublished
            /\ downloadState[p] \notin {DownloadStateEmpty, DownloadStateEnqueued}})
          <= maxDownloads

\* a plot is Enqueued while fewer than maxDownloads plots are in flight
WaitsBelowCap(p) ==
    /\ State[p] = StatePublished
    /\ downloadState[p] = DownloadStateEnqueued
    /\ Cardinality({q \in Order :
          /\ State[q] = StatePublished
          /\ downloadState[q] \notin {DownloadStateEmpty, DownloadStateEnqueued}})
         < maxDownloads

C10_DirectoryStable ==
    [][\A p \in Plots :
          downloadDirectory[p] # "" => downloadDirectory'[p] = downloadDirectory[p]]_vars

C8_Witness ==
    /\ maxDownloads > 0
    /\ Cardinality(InFlight) = maxDownloads
    /\ \E p \in Order :
          State[p] = StatePublished /\ downloadState[p] = DownloadStateEnqueued

C10_Witness ==
    \E p \in Order :
        /\ downloadDirectory[p] # ""
        /\ truncateFrom[p] # NoOffset
        /\ downloadState[p] = DownloadStateReady


\* ------------------------------------------------------ allocation claims
\* the visit of p in this step chose a directory and SetDownloadDirectory took it
Allocated(p) ==
    /\ downloadState[p] = DownloadStateLookingForDownloadDirectory
    /\ downloadState'[p] = DownloadStateWaitingForHashes

\* the visit of p in this step got ErrNotEnoughSpace (nothing failed in it)
Refused(p) ==
    /\ downloadState[p] = DownloadStateLookingForDownloadDirectory
    /\ downloadState'[p] = DownloadStateLookingForDownloadDirectory
    /\ ~downloadError[p]
    /\ downloadError'[p]
    /\ faults' = faults

\* the directory that holds p's file has room for the rest of the plot
RoomToResume(p) ==
    downloadSize[p] - Len(file[p]) <= getAvailableSpace(fileAt[p])

\* C11: an allocation for a plot whose file is in directory D chooses D, and
\* only when D has room for the remaining bytes; it is refused only when D has
\* no room.
C11_ResumeReturnsHolder ==
    [][\A p \in Plots :
          fileAt[p] # "" =>
              /\ Allocated(p) => downloadDirectory'[p] = fileAt[p] /\ RoomToResume(p)
              /\ Refused(p) => ~RoomToResume(p)]_vars

\* the bytes directory i of plotDirs has left for a new plot: the probe's bytes
\* minus what the plots assigned to it still have to download
Unreserved(i) ==
    free[plotDirs[i]]
      - SumOver({q \in Order : downloadDirectory[q] = plotDirs[i]},
                [q \in Plots |-> downloadSize[q] - Len(file[q])])

\* C12: an allocation for a plot that has no file chooses the first configured
\* directory whose unreserved bytes are at least downloadSize, and is refused
\* only when no directory has that many.
C12_FirstFit ==
    [][\A p \in Plots :
          fileAt[p] = "" =>
              /\ Allocated(p) =>
                    \E i \in 1 .. Len(plotDirs) :
                        /\ downloadDirectory'[p] = plotDirs[i]
                        /\ downloadSize[p] <= Unreserved(i)
                        /\ \A j \in 1 .. i - 1 : downloadSize[p] > Unreserved(j)
              /\ Refused(p) =>
                    \A i \in 1 .. Len(plotDirs) : downloadSize[p] > Unreserved(i)]_vars

\* C13: after an admission that assigned a plot to a directory, the remaining
\* bytes of the plots assigned to that directory, the new one included, are no
\* more than the bytes the probe reports for it.
C13_ReservationsFit ==
    [][\A p \in Plots :
          Allocated(p) =>
              SumOver({q \in Order : downloadDirectory'[q] = downloadDirectory'[p]},
                      [q \in Plots |-> downloadSize'[q] - Len(file'[q])])
                <= free'[downloadDirectory'[p]]]_vars

\* C12: a plot that had no file was placed in the second directory although the
\* probe of the first reports room for it: what another plot assigned to the
\* first directory still has to download is counted against it
C12_Witness ==
    \E p, q \in Order :
        /\ resumedFrom[p] = "-"
        /\ downloadDirectory[p] = plotDirs[2]
        /\ downloadState[p] = DownloadStateWaitingForHashes
        /\ downloadDirectory[q] = plotDirs[1]
        /\ downloadSize[p] <= free[plotDirs[1]]

\* ------------------------------------------------------ file claims
\* the live validator of p is in the middle of validating chunk k
InLiveValidation(p, k) ==
    /\ downloadState[p] = DownloadStateLiveValidation
    /\ \E t \in Tasks : val[p][t].pc = "validating" /\ val[p][t].chunk = k

\* C14: every chunk that is complete on disk matches its hash, unless the live
\* validator is validating that chunk right now.
C14_FullChunksMatch ==
    \A p \in Order :
        downloadDirectory[p] # "" =>
            \A k \in 0 .. (Len(file[p]) \div hashChunkSize) - 1 :
                ChunkMatches(p, k) \/ InLiveValidation(p, k)

\* C15: the file of a plot that has a download directory is never longer than
\* downloadSize.
C15_FileWithinSize ==
    \A p \in Order :
        downloadDirectory[p] # "" => Len(file[p]) <= downloadSize[p]

\* after the cancellation Start has waited for its Downloads and returned
GracefulShutdown == ppc = "returned" /\ result = "cancelled"

\* C16: after a graceful shutdown the file of every plot is empty, or complete,
\* or ends at a chunk boundary with every chunk valid.
C16_ShutdownLeavesPrefix ==
    GracefulShutdown =>
        \A p \in Order :
            downloadDirectory[p] # "" =>
                \/ Len(file[p]) = 0
                \/ Len(file[p]) = downloadSize[p]
                \/ /\ Len(file[p]) % hashChunkSize = 0
                   /\ \A k \in 0 .. (Len(file[p]) \div hashChunkSize) - 1 :
                         ChunkMatches(p, k)

C18_RangeFromBoundary ==
    [][\A p \in Plots, t \in Tasks :
          /\ dl[p][t].pc = "spawned"
          /\ dl'[p][t].pc = "reading"
          /\ truncateFrom[p] = NoOffset
          /\ hashChunkSize <= Len(file[p])
          /\ Len(file[p]) < downloadSize[p]
          => dl'[p][t].pos = (Len(file[p]) \div hashChunkSize) * hashChunkSize]_vars

\* C19: a partial file with a unit of any of its complete chunks overwritten
\* before the run is never reported Downloaded with a chunk that does not match.
C19_CorruptionRepaired ==
    \A p \in Order :
        downloadState[p] = DownloadStateDownloaded =>
            \A k \in ChunksOf(p) : ChunkMatches(p, k)

CalledForHashes(p) ==
    /\ downloadState[p] = DownloadStateWaitingForHashes
    /\ hashesCall'[p] # hashesCall[p] \/ faults' < faults

\* Reporter.render: the row of a Published plot with the error flag reads
\* "Error, please check logs"
ShowsError(p) == State[p] = StatePublished /\ downloadError[p]

\* C21: a GetHashesForPlot call that reports the hashes as not ready leaves the
\* plot in WaitingForHashes with its error flag as it was, so that no error is
\* shown for a plot that had none; a call that brings every hash of the plot
\* moves it to NotStarted.
C21_NotReadyWaits ==
    [][\A p \in Plots :
          CalledForHashes(p) =>
              /\ hashesCall'[p].result = "notready" =>
                    /\ downloadState'[p] = DownloadStateWaitingForHashes
                    /\ downloadError'[p] = downloadError[p]
                    /\ ShowsError(p)' => ShowsError(p)
              /\ hashesCall'[p].reply = GoodReply(p) =>
                    downloadState'[p] = DownloadStateNotStarted]_vars

\* C22: a GetHashesForPlot call that the remote answered with status 400
\* returned ErrPlotHashesNotReady whatever the body was, and so did a call the
\* remote answered with an empty list of hashes.
C22_BadRequestIsNotReady ==
    \A p \in Plots :
        hashesCall[p] # NoCall =>
            /\ hashesCall[p].reply.code = 400 => hashesCall[p].result = "notready"
            /\ (/\ hashesCall[p].reply.code # 0
                /\ hashesCall[p].reply.body = "list"
                /\ hashesCall[p].reply.n = 0) => hashesCall[p].result = "notready"

\* the tick's visit of p in this step found it looking for a directory and ran
\* the allocation for it
AllocationRun(p) ==
    /\ downloadState[p] = DownloadStateLookingForDownloadDirectory
    /\ \E reload \in BOOLEAN : Visit(p, reload)

\* C23: an allocation that ends with ErrNotEnoughSpace sets the plot's error
\* flag and leaves Start running, and no later visit of the tick runs the
\* allocation again for a plot whose allocation was refused.
C23_RefusedIsNotRetried ==
    [][\A p \in Plots :
          /\ (AllocationRun(p) /\ getPlotDownloadDirectory(p, StatFilepath(p)) = "") =>
                downloadError'[p] /\ result' = "running"
          /\ downloadError[p] => ~AllocationRun(p)]_vars

\* the tick's visit of p in this step called InitialiseDownload and it failed
InitialiseFailed(p) ==
    /\ AtPlot(p)
    /\ faults' < faults
    /\ \E reload \in BOOLEAN : ProcessAdmit(p, reload)

\* C24: a failed InitialiseDownload leaves the plot's downloadState Failed.
C24_InitialiseFailureFails ==
    [][\A p \in Plots :
          InitialiseFailed(p) => downloadState'[p] = DownloadStateFailed]_vars

\* f is what g starts with
IsPrefix(f, g) == Len(f) <= Len(g) /\ f = SubSeq(g, 1, Len(f))

\* Download task t of p got no response to its GET, or one with another status
\* than the expected, in this step
GetRefused(p, t) == dl[p][t].pc = "spawned" /\ dl'[p][t].pc = "done"

\* Download task t of p returns with an error in this step
ReturnsError(p, t) == dl[p][t].pc = "done" /\ dl[p][t].err /\ dl'[p][t].pc = "idle"

\* C25: a Download whose GET is not answered with the expected status appends
\* nothing to the file (the file is what it was, or what the truncation to
\* truncateFrom left of it) and starts neither validator nor recorder; when it
\* returns with its error the downloadState is Failed.
C25_WrongStatusFails ==
    [][\A p \in Plots, t \in Tasks :
          /\ GetRefused(p, t) =>
                /\ IsPrefix(file'[p], file[p])
                /\ val'[p][t].pc = "off"
                /\ ~rec'[p][t]
          /\ ReturnsError(p, t) => downloadState'[p] = DownloadStateFailed]_vars

\* C25: the GET of a Download that resumes a file was refused: the task is about
\* to return the error, it read nothing, and none of its routines runs
C25_Witness ==
    \E p \in Order, t \in Tasks :
        /\ dl[p][t].pc = "done"
        /\ dl[p][t].err
        /\ dl[p][t].pos = 0
        /\ Len(file[p]) > 0
        /\ val[p][t].pc = "off"
        /\ ~rec[p][t]
        /\ downloadState[p] = DownloadStateDownloading

\* a task of plot p panics in this step
Panicked(p, t) ==
    \/ PrepareDownloadPanic(p, t)
    \/ DownloadPanic(p, t)
    \/ RoutinePanic(p, t)

\* C26: a panic in a task of a plot does not end the process, and it leaves the
\* plot Failed: at once, or when the Download that recovered it returns its
\* error.
C26_PanicsRecovered ==
    [][\A p \in Plots, t \in Tasks :
          Panicked(p, t) =>
              /\ result' # "panic"
              /\ \/ downloadState'[p] = DownloadStateFailed
                 \/ dl'[p][t].pc = "done" /\ dl'[p][t].err]_vars

\* a remote call of the tick's visit of p fails in this step: GetPlot,
\* GetHashesForPlot (with another error than ErrPlotHashesNotReady) or DeletePlot
RemoteCallFailed(p) ==
    /\ AtPlot(p)
    /\ faults' < faults
    /\ \E reload \in BOOLEAN :
          \/ ProcessGetPlotError(p, reload)
          \/ ProcessHashes(p, reload) /\ hashesCall'[p].result = "error"
          \/ ProcessDownloaded(p, reload)

\* C27: a remote call of the tick that fails leaves Start running, with the
\* plot still on the schedule so that a later tick makes the call again.
C27_RemoteFailureSwallowed ==
    [][\A p \in Plots :
          RemoteCallFailed(p) =>
              /\ ppc' # "returned"
              /\ result' = "running"
              /\ schedule'[p] # "none"]_vars

\* ------------------------------------------------------ transition graph
\* the edges of the download state machine: the transition graph, the
\* admission edges through Enqueued, Ready for a file without a full chunk,
\* Downloaded out of the sub-state of Downloading, and Failed from every state
\* in which a step of the failure table is taken
Graph ==
    {<<DownloadStateEmpty, DownloadStateLookingForDownloadDirectory>>,
     <<DownloadStateEmpty, DownloadStateEnqueued>>,
     <<DownloadStateEnqueued, DownloadStateLookingForDownloadDirectory>>,
     <<DownloadStateLookingForDownloadDirectory, DownloadStateWaitingForHashes>>,
     <<DownloadStateWaitingForHashes, DownloadStateNotStarted>>,
     <<DownloadStateNotStarted, DownloadStatePreparing>>,
     <<DownloadStatePreparing, DownloadStateInitialValidation>>,
     <<DownloadStatePreparing, DownloadStateReady>>,
     <<DownloadStatePreparing, DownloadStateDownloaded>>,
     <<DownloadStateInitialValidation, DownloadStateReady>>,
     <<DownloadStateInitialValidation, DownloadStateFailedValidation>>,
     <<DownloadStateReady, DownloadStateDownloading>>,
     <<DownloadStateDownloading, DownloadStateLiveValidation>>,
     <<DownloadStateLiveValidation, DownloadStateDownloading>>,
     <<DownloadStateLiveValidation, DownloadStateFailedValidation>>,
     <<DownloadStateDownloading, DownloadStateDownloaded>>,
     <<DownloadStateLiveValidation, DownloadStateDownloaded>>,
     <<DownloadStateFailed, DownloadStateReady>>,
     <<DownloadStateFailedValidation, DownloadStateReady>>}
      \cup {<<s, DownloadStateFailed>> :
               s \in {DownloadStateEmpty, DownloadStateEnqueued,
                      DownloadStateLookingForDownloadDirectory, DownloadStatePreparing,
                      DownloadStateInitialValidation, DownloadStateReady,
                      DownloadStateDownloading, DownloadStateLiveValidation}}

\* a step from a to b follows the graph: along an edge, or from NotStarted
\* through Preparing, which PrepareDownload enters and leaves within its first
\* step
FollowsGraph(a, b) ==
    \/ <<a, b>> \in Graph
    \/ a = DownloadStateNotStarted /\ <<DownloadStatePreparing, b>> \in Graph

\* C28: every step that changes a plot's downloadState, whichever operation or
\* background task takes it, moves it along an edge of the transition graph.
C28_TransitionsFollowGraph ==
    [][\A p \in Plots :
          downloadState'[p] # downloadState[p] =>
              FollowsGraph(downloadState[p], downloadState'[p])]_vars

\* ------------------------------------------------------ download history
\* the last n entries of s (all of s when it has fewer)
LastOf(s, n) == SubSeq(s, IF Len(s) > n THEN Len(s) - n + 1 ELSE 1, Len(s))

\* C29: downloadHistory never holds more than 5 entries, and it holds the most
\* recent samples the recorder took, in the order they were taken.
C29_HistoryKeepsLatest ==
    \A p \in Plots :
        /\ Len(downloadHistory[p]) <= 5
        /\ downloadHistory[p] = LastOf(taken[p], 5)

\* C29: more samples were taken than the history holds: the history is full and
\* starts at the third of seven samples
C29_Witness ==
    \E p \in Order :
        /\ Len(taken[p]) = MaxSamples
        /\ Len(downloadHistory[p]) = 5
        /\ downloadHistory[p][1].time = MaxSamples - 4
        /\ downloadHistory[p][1].bytes < downloadHistory[p][5].bytes

\* C30: no step taken while a plot's downloadState is LiveValidation adds a
\* byte to the plot's file.
C30_PausedWhileValidating ==
    [][\A p \in Plots :
          downloadState[p] = DownloadStateLiveValidation =>
              Len(file'[p]) <= Len(file[p])]_vars

\* ------------------------------------------------------------ C31 .. C40
\* a validator tick of Download t of plot p starts a validation in this step
ValidationStarts(p, t) == val[p][t].pc = "tick" /\ val'[p][t].pc = "validating"

\* C31: a validation the live validator starts asks for a chunk the plot has a
\* hash for, and when the file has reached downloadSize the chunk is the final
\* one, number ceil(downloadSize / hashChunkSize) - 1.
C31_FinalChunkAtEOF ==
    [][\A p \in Plots, t \in Tasks :
          ValidationStarts(p, t) =>
              /\ val'[p][t].chunk < fileChunkHashes[p]
              /\ getDownloadedBytes(p) = downloadSize[p] =>
                     val'[p][t].chunk = requiredNumberOfFileHashes(p) - 1]_vars

\* C32: in a run without failures, whose plots start without a file or with a
\* first chunk that PrepareDownload validates, the live validator skips no
\* chunk: when it starts the validation of a chunk, every chunk below it has
\* been found valid.
C32_NoChunkSkipped ==
    [][\A p \in Plots, t \in Tasks :
          ValidationStarts(p, t) =>
              \A k \in 0 .. val'[p][t].chunk - 1 : k \in validated[p]]_vars

\* PrepareDownload task t of plot p takes its first step, its last step
PrepareBegins(p, t) == prep[p][t].pc = "spawned" /\ prep'[p][t].pc # "spawned"
PrepareValidates(p, t) == prep[p][t].pc = "validating" /\ prep'[p][t].pc = "idle"

\* the last full chunk of the file of plot p
LastFullChunk(p) == (Len(file[p]) \div hashChunkSize) - 1

DownloadBegins(p, t) == dl[p][t].pc = "spawned" /\ dl'[p][t].pc # "spawned"

HashesGiven(p) ==
    /\ AtPlot(p)
    /\ \E reload \in BOOLEAN : ProcessHashes(p, reload)
    /\ hashesCall'[p].result = ""

\* C35: SetFileHashes with a list of fewer hashes than the plot has chunks
\* leaves the stored hashes and the downloadState, WaitingForHashes, as they
\* are; with a hash for every chunk or more it stores the list and the state
\* becomes NotStarted.
C35_ShortListIsRefused ==
    [][\A p \in Plots :
          HashesGiven(p) =>
              LET n == hashesCall'[p].reply.n
              IN  IF n * hashChunkSize < downloadSize[p]
                  THEN /\ fileChunkHashes'[p] = fileChunkHashes[p]
                       /\ downloadState'[p] = DownloadStateWaitingForHashes
                  ELSE /\ fileChunkHashes'[p] = n
                       /\ downloadState'[p] = DownloadStateNotStarted]_vars

\* the last call brought a list that is short of a hash, and the plot waits
C35_Witness ==
    \E p \in Plots :
        /\ hashesCall[p].result = ""
        /\ hashesCall[p].reply.n >= 1
        /\ hashesCall[p].reply.n * hashChunkSize < downloadSize[p]
        /\ downloadState[p] = DownloadStateWaitingForHashes
        /\ fileChunkHashes[p] = 0

\* the tick's visit of p in this step called RetryDownload
Retried(p) ==
    /\ AtPlot(p)
    /\ \E reload \in BOOLEAN : ProcessRetry(p, reload)

\* Download task t of plot p, which RetryDownload cancelled, returns in this step
CancelledReturns(p, t) ==
    /\ dl[p][t].pc = "done"
    /\ dl[p][t].cancelled
    /\ dl'[p][t].pc = "idle"

\* C36: RetryDownload cancels the plot's active Download, if there is one, and
\* leaves the plot Ready; a Download it cancelled returns without an error,
\* and when it returns while the plot is Ready the plot stays Ready.
C36_RetryLeavesReady ==
    [][\A p \in Plots :
          /\ Retried(p) =>
                /\ downloadState'[p] = DownloadStateReady
                /\ cancelDownload[p] # NoTask => dl'[p][cancelDownload[p]].cancelled
          /\ \A t \in Tasks :
                CancelledReturns(p, t) =>
                    /\ ~dl[p][t].err
                    /\ downloadState[p] = DownloadStateReady =>
                           downloadState'[p] = DownloadStateReady]_vars

\* the PrepareDownload tasks of plot p that have begun and not returned
PreparesRunning(p) == {t \in Tasks : prep[p][t].pc = "validating"}

\* C37: at no time have two PrepareDownload tasks of one plot begun and not
\* returned, and none is in that state while a Download of the plot is.
C37_OnePrepareNoDownload ==
    \A p \in Plots :
        /\ Cardinality(PreparesRunning(p)) <= 1
        /\ PreparesRunning(p) # {} =>
              \A t \in Tasks : dl[p][t].pc \notin {"reading", "done"}

\* the validator of Download t of plot p finds its chunk valid in this step
ValidationPasses(p, t) ==
    /\ val[p][t].pc = "validating"
    /\ val'[p][t].pc # "validating"
    /\ validateChunk(p, val[p][t].chunk) = "valid"

\* C38: a validator that finds its chunk valid leaves a downloadState that
\* was written since it set LiveValidation as it is, and so its restore leaves
\* the plot Downloading or LiveValidation only while the plot has a Download
\* that has not returned.
C38_RestoreKeepsNewerState ==
    [][\A p \in Plots, t \in Tasks :
          ValidationPasses(p, t) =>
              /\ downloadState[p] # DownloadStateLiveValidation =>
                     downloadState'[p] = downloadState[p]
              /\ downloadState'[p] \in {DownloadStateDownloading,
                                        DownloadStateLiveValidation} =>
                     \E u \in Tasks : dl'[p][u].pc # "idle"]_vars

\* C39: the request of a GetHashesForPlot call that got, to its last attempt,
\* a status that the retry predicate rejects returned an error to
\* GetHashesForPlot, which then returned an error and no hashes.
C39_RejectedStatusIsError ==
    \A p \in Plots :
        (/\ hashesCall[p] # NoCall
         /\ hashesCall[p].reply.code # 0
         /\ retryHashes(hashesCall[p].reply.code)) =>
            /\ apiRequest(hashesCall[p].reply).err
            /\ hashesCall[p].result = "error"

\* the plots assigned to a directory on the volume directory d is on, after the step
OnVolumeOf(d) ==
    {q \in Order : /\ downloadDirectory'[q] # ""
                   /\ taskCap.volumes[downloadDirectory'[q]] = taskCap.volumes[d]}

\* C40: when directories share a volume, an allocation that assigns a plot to
\* one of them leaves the remaining bytes of the plots assigned to any
\* directory of the volume, the new one included, no more than the bytes the
\* probe reports for the volume.
C40_VolumeReservationsFit ==
    [][\A p \in Plots :
          (/\ Allocated(p)
           /\ \E d \in Dirs : d # downloadDirectory'[p]
                               /\ taskCap.volumes[d] = taskCap.volumes[downloadDirectory'[p]]) =>
              SumOver(OnVolumeOf(downloadDirectory'[p]),
                      [q \in Plots |-> downloadSize'[q] - Len(file'[q])])
                <= free[downloadDirectory'[p]]]_vars
====
